---------------------------- MODULE Spec2Model ----------------------------
(***************************************************************************)
(* A model of the Remini client of src/remini.py: the session-token        *)
(* lifecycle (_login, _get_setup, _get_user_profile, the token file) and   *)
(* the task workflows process and stylize (create, upload, trigger, poll,  *)
(* reprocess, download).                                                   *)
(*                                                                         *)
(* One client instance runs one workflow at a time.  Each action is the    *)
(* code between two awaits: one HTTP exchange and what the code does with  *)
(* the response.  The remote service is the environment: it answers every  *)
(* request with an HTTP response whose status code and JSON fields are     *)
(* chosen nondeterministically.  Every exchange of the current run is      *)
(* appended to the history variable reqs.                                  *)
(***************************************************************************)
EXTENDS Naturals, Sequences, FiniteSets, TLC

VARIABLES
    tokenFile,          \* the content of the file at self.token_path
    identity_token,     \* self.identity_token
    cached,             \* self.identity_token as _load_identity_token left it
    saves,              \* writes to the token file in the current run
    pc,                 \* the position of the running workflow
    wf,                 \* the public operation running: process or stylize
    style,              \* stylize's argument style
    task_id,            \* _create_image_task: task_id, which process keeps as
                        \* task_id and stylize as base_task_id
    upload_url,         \* _create_image_task: upload_url
    upload_headers,     \* _create_image_task: upload_headers
    reprocess_task_id,  \* stylize: reprocess_task_id
    poll_task,          \* _poll_status_http: its argument task_id
    phase,              \* which call of _poll_status_http is running
    base_task_url,      \* stylize: base_task_url
    final_url,          \* process / stylize: final_url
    polls,              \* status queries answered "not yet" in this run
    err,                \* the exception the workflow ended with
    err_detail,         \* the service's error payload in that exception
    reqs,               \* the HTTP exchanges of the current run, in order
    runs                \* workflows started on this client

\* The token file as text: _save_identity_token by one client, then
\* _load_identity_token by the same or by a fresh client.
VARIABLES
    rt_pc,              \* "off", or the next step: "save", "load", "end"
    rt_client,          \* who loads: the "same" client or a "fresh" one
    rt_token,           \* self.identity_token of the client that saves
    rt_file,            \* the file at token_path: whether it exists, its text
    rt_loaded           \* self.identity_token of the client that loads

\* _download_file alone: the streamed response and the output file.
VARIABLES
    dl_pc,              \* "off", or the next step: "get", "write", "end"
    dl_body,            \* the chunks response.aiter_bytes() yields, in order
    dl_n,               \* the chunks received and written so far
    dl_file,            \* the file at output_path: whether it exists, its bytes
    dl_err              \* the exception _download_file ended with

\* Two workflows at once, on one client or on two clients.
VARIABLES
    cc_mode,            \* "off", "one" (one client) or "two" (a client each)
    cc_file,            \* the file at DEFAULT_TOKEN_FILE
    cc_token,           \* self.identity_token of each client
    cc_pc,              \* each workflow: "start", the exchange awaited, "done"
    cc_err,             \* the exception each workflow ended with
    cc_log              \* token loads, requests sent and tokens minted, in order

main_vars == << tokenFile, identity_token, cached, saves, pc, wf, style,
                task_id, upload_url, upload_headers, reprocess_task_id,
                poll_task, phase, base_task_url, final_url, polls, err,
                err_detail, reqs, runs >>

rt_vars == << rt_pc, rt_client, rt_token, rt_file, rt_loaded >>

dl_vars == << dl_pc, dl_body, dl_n, dl_file, dl_err >>

cc_vars == << cc_mode, cc_file, cc_token, cc_pc, cc_err, cc_log >>

vars == << main_vars, rt_vars, dl_vars, cc_vars >>

----------------------------------------------------------------------------
\* Bounds of the model.

\* Status queries the service may answer with 404 or a non-terminal status
\* in one run.
MaxPolls == 2

\* Workflows one client instance runs one after the other.
MaxRuns == 2

\* The longest token written to the token file as text.
MaxTokenLen == 3

\* The chunks of a streamed download, and the bytes of a chunk.
MaxChunks == 3
MaxChunkLen == 2

----------------------------------------------------------------------------
\* Values.

\* Python's None.
NoneVal == "<None>"

\* A local that has not been assigned yet.
Unset == "<unset>"

\* Python truthiness of an optional string.
Truthy(v) == v \notin {NoneVal, ""}

\* Tokens the cache may hold before the first run, and tokens the setup
\* endpoint may mint.
CachedTokens == {"tok0"}
MintedTokens == {"tok1", "tok2"}

TaskIds == {"T1", "T2"}
UploadUrls == {"https://gcs/put"}
OutputUrls == {"https://x/base.jpg"}
Styles == {"toon", "anime"}

\* response.raise_for_status() raises httpx.HTTPStatusError.
RaisesForStatus(code) == code \notin 200..299

\* Task status strings; "processing" stands for every in-progress status.
StatusStrings == {"completed", "failed", "error", "processing"}

REMINI_API_BASE_URL == "https://a.android.api.remini.ai/v1/mobile"
REMINI_ORACLE_API_BASE_URL == "https://api.remini.ai/v1/mobile/oracle"

----------------------------------------------------------------------------
\* Headers: functions from header name to header value.

_device_ids ==
    [ android_id |-> "<android_id>",
      aaid |-> "<aaid>",
      backup_persistent_id |-> "<android_id>_com.bigwinepot.nwdn.international",
      non_backup_persistent_id |-> "<non_backup_persistent_id>" ]

_android_headers ==
    ( "bsp-id" :> "com.bigwinepot.nwdn.international.android" ) @@
    ( "build-number" :> "202514479" ) @@
    ( "build-version" :> "3.7.1020" ) @@
    ( "country" :> "US" ) @@
    ( "device-manufacturer" :> "Samsung" ) @@
    ( "device-model" :> "SM-G998B" ) @@
    ( "device-type" :> "6.8" ) @@
    ( "language" :> "en" ) @@
    ( "locale" :> "en_US" ) @@
    ( "os-version" :> "33" ) @@
    ( "platform" :> "Android" ) @@
    ( "timezone" :> "America/New_York" ) @@
    ( "android-id" :> _device_ids.android_id ) @@
    ( "aaid" :> _device_ids.aaid ) @@
    ( "accept-encoding" :> "gzip" ) @@
    ( "user-agent" :> "okhttp/4.12.0" )

\* d.update(e) / d[k] = v: the right operand of @@ loses to the left one.
Update(d, e) == e @@ d

_get_common_headers(tok, content_type) ==
    Update(Update(_android_headers,
                  IF Truthy(tok) THEN "identity-token" :> tok ELSE <<>>),
           IF Truthy(content_type) THEN "content-type" :> content_type
           ELSE <<>>)

\* The headers of the setup request, built from the client's current token.
_get_setup_headers(tok) ==
    Update(_get_common_headers(tok, NoneVal),
        ( "first-install-timestamp" :> "<now>E9" ) @@
        ( "backup-persistent-id" :> _device_ids.backup_persistent_id ) @@
        ( "non-backup-persistent-id" :> _device_ids.non_backup_persistent_id ) @@
        ( "environment" :> "Production" ) @@
        ( "settings-response-version" :> "v2" ) @@
        ( "is-app-running-in-background" :> "false" ) @@
        ( "is-old-user" :> "true" ) @@
        ( "app-set-id" :> "d44bd45a-a45d-4470-9674-7348a8e3fb71" ))

\* The identity-token header of a request, NoneVal when it carries none.
TokenOf(h) == IF "identity-token" \in DOMAIN h THEN h["identity-token"] ELSE NoneVal

----------------------------------------------------------------------------
\* The token file.

\* What the file at token_path may hold: nothing (no file), bytes that are
\* not JSON or cannot be read, JSON that is not an object, or a JSON object
\* whose identity_token is a string or is missing (NoneVal).
FileOf(kind, tok) == [kind |-> kind, identity_token |-> tok]

TokenFiles ==
    { FileOf("absent", NoneVal), FileOf("corrupt", NoneVal),
      FileOf("nonobject", NoneVal) }
    \cup { FileOf("object", t) : t \in CachedTokens \cup {NoneVal, ""} }

\* data.get on a value that is no dict raises AttributeError, which
\* _load_identity_token does not catch.
_load_raises(file) == file.kind = "nonobject"

\* self.identity_token after _load_identity_token, given its value before.
_load_identity_token(file, cur) ==
    CASE file.kind = "absent" -> cur
      [] file.kind = "corrupt" -> NoneVal
      [] OTHER -> file.identity_token

\* A _save_identity_token that never writes.
_save_identity_token_skipped(tok, file) == file

\* The file after _save_identity_token.
_save_identity_token(tok, file) ==
    IF Truthy(tok) THEN FileOf("object", tok) ELSE file

\* Whether _save_identity_token writes.
_save_writes(tok) == IF Truthy(tok) THEN 1 ELSE 0

----------------------------------------------------------------------------
\* The history of exchanges.

Exchange(op, url, headers, body, resp) ==
    [op |-> op, url |-> url, headers |-> headers, body |-> body, resp |-> resp]

Sent(op, url, headers, body, resp) ==
    reqs' = Append(reqs, Exchange(op, url, headers, body, resp))

\* The positions of the exchanges of kind op.
At(op) == { i \in 1..Len(reqs) : reqs[i].op = op }

----------------------------------------------------------------------------
\* Errors: the messages of the ReminiError raised, or the exception's name.

NoError == "none"
E_FileNotFound == "FileNotFoundError: Input file not found"
E_Attribute == "AttributeError"
E_Auth == "Failed to activate user profile even with a new token."
E_SetupNoToken == "Token not found in setup response"
E_SetupHTTP == "HTTP error during setup"
E_Upload == "GCS upload failed"
E_CreateMissing == "Missing required fields in task response"
E_CreateHTTP == "Upload URL request failed"
E_ReprocessNoId == "Reprocessing did not return a new task ID"
E_ReprocessHTTP == "Reprocessing request failed"
E_Ping == "Processing ping failed"
E_PollHTTP == "HTTP polling failed"
E_TaskFailed == "Task failed during processing"
E_Download == "Download failed"
E_NoFinalUrl == "Processing failed, no final URL was generated."
E_NoBaseUrl == "Base task did not complete successfully. Cannot proceed with stylization."

\* The workflow ends by raising e, whose message carries the payload d.
RaiseWith(e, d) == pc' = "done" /\ err' = e /\ err_detail' = d

\* The workflow ends by raising e.
Raise(e) == RaiseWith(e, NoneVal)

\* The workflow goes on at p.
Goto(p) == pc' = p /\ err' = err /\ err_detail' = err_detail

----------------------------------------------------------------------------
\* The text-level token file is not in use.
RtOff ==
    /\ rt_pc = "off"
    /\ rt_client = "same"
    /\ rt_token = << >>
    /\ rt_file = [exists |-> FALSE, text |-> << >>]
    /\ rt_loaded = << >>

\* The download stream is not in use.
DlOff ==
    /\ dl_pc = "off"
    /\ dl_body = << >>
    /\ dl_n = 0
    /\ dl_file = [exists |-> FALSE, bytes |-> << >>]
    /\ dl_err = NoError

\* The concurrent workflows are not in use.
CcOff ==
    /\ cc_mode = "off"
    /\ cc_file = FileOf("absent", NoneVal)
    /\ cc_token = << >>
    /\ cc_pc = << >>
    /\ cc_err = << >>
    /\ cc_log = << >>

\* The variables of the other specifications, which the workflows of one
\* client leave alone.
OtherVarsUnchanged == UNCHANGED << rt_vars, dl_vars, cc_vars >>

\* Initial state: a client just constructed, whatever the token file holds.

MainInit(files) ==
    /\ tokenFile \in files
    /\ identity_token = NoneVal
    /\ cached = Unset
    /\ saves = 0
    /\ pc = "idle"
    /\ wf = Unset
    /\ style = Unset
    /\ task_id = Unset
    /\ upload_url = Unset
    /\ upload_headers = << >>
    /\ reprocess_task_id = Unset
    /\ poll_task = Unset
    /\ phase = Unset
    /\ base_task_url = Unset
    /\ final_url = Unset
    /\ polls = 0
    /\ err = NoError
    /\ err_detail = NoneVal
    /\ reqs = << >>
    /\ runs = 0

Init == MainInit(TokenFiles) /\ RtOff /\ DlOff /\ CcOff

----------------------------------------------------------------------------
\* Request payloads.

EnhanceFeature == [type |-> "enhance", models |-> << >>]

StyleFeature(s) == [type |-> "stylization-v2", pipelines |-> << [id |-> s] >>]

JSON_CONTENT_TYPE == "application/json; charset=UTF-8"

----------------------------------------------------------------------------
\* What the service may answer.

ProfileResponses == { [code |-> c] : c \in {200, 401, 500} }

\* settings.__identity__.token of the setup response: a token, missing, or
\* empty.
SetupResponses ==
    { [code |-> 200, token |-> t] : t \in MintedTokens \cup {NoneVal, ""} }
    \cup { [code |-> 500, token |-> NoneVal] }

----------------------------------------------------------------------------
\* _login: load the cached token, probe it, bootstrap when it is missing or
\* rejected, and probe the new token once.

\* self.identity_token and await self._get_user_profile(): the probe is
\* awaited only for a truthy token.
_login_after_load(tok) == IF Truthy(tok) THEN "login_probe" ELSE "login_setup"

\* A _login that bootstraps whatever the probe said.
_login_after_probe_always_setup(ok) == "login_setup"

\* if <probe>: return; otherwise go on to _get_setup.
_login_after_probe(ok) == IF ok THEN "create" ELSE "login_setup"

\* _get_setup returned: the probe is repeated.
_login_after_setup == "login_reprobe"

\* A _login that bootstraps again when the new token is rejected.
_login_after_reprobe_retry(ok) == IF ok THEN "create" ELSE "login_setup"

\* if not <probe>: raise; otherwise _login returns.
_login_after_reprobe(ok) == IF ok THEN "create" ELSE "raise"

\* The entry of process and stylize up to the first await of _login.
Enter(w, s, exists) ==
    /\ pc \in {"idle", "done"}
    /\ runs < MaxRuns
    /\ runs' = runs + 1
    /\ wf' = w
    /\ style' = s
    /\ reqs' = << >>
    /\ saves' = 0
    /\ polls' = 0
    /\ task_id' = Unset
    /\ upload_url' = Unset
    /\ upload_headers' = << >>
    /\ reprocess_task_id' = Unset
    /\ poll_task' = Unset
    /\ phase' = Unset
    /\ base_task_url' = Unset
    /\ final_url' = Unset
    /\ err_detail' = NoneVal
    /\ UNCHANGED tokenFile
    /\ OtherVarsUnchanged
    /\ IF ~exists
         THEN /\ pc' = "done" /\ err' = E_FileNotFound
              /\ cached' = Unset
              /\ UNCHANGED identity_token
         ELSE IF _load_raises(tokenFile)
         THEN /\ pc' = "done" /\ err' = E_Attribute
              /\ cached' = Unset
              /\ UNCHANGED identity_token
         ELSE LET tok == _load_identity_token(tokenFile, identity_token) IN
              /\ identity_token' = tok
              /\ cached' = tok
              /\ pc' = _login_after_load(tok)
              /\ err' = NoError

process(exists) == Enter("process", Unset, exists)

stylize(s, exists) == Enter("stylize", s, exists)

\* The locals of the workflow that an action of _login leaves alone.
TaskVarsUnchanged ==
    /\ UNCHANGED << cached, wf, style, task_id, upload_url, upload_headers,
                    reprocess_task_id, poll_task, phase, base_task_url,
                    final_url, polls, runs >>
    /\ OtherVarsUnchanged

\* GET /users/@me with the current token; False without a request when
\* there is no token.
_get_user_profile(resp) ==
    /\ pc \in {"login_probe", "login_reprobe"}
    /\ TaskVarsUnchanged
    /\ UNCHANGED << tokenFile, identity_token, saves >>
    /\ LET ok == Truthy(identity_token) /\ ~RaisesForStatus(resp.code) IN
       /\ IF Truthy(identity_token)
            THEN Sent("profile", << REMINI_API_BASE_URL, "users", "@me" >>,
                      _get_common_headers(identity_token, NoneVal), NoneVal, resp)
            ELSE UNCHANGED reqs
       /\ IF pc = "login_probe"
            THEN Goto(_login_after_probe(ok))
            ELSE IF _login_after_reprobe(ok) = "raise"
                   THEN Raise(E_Auth)
                   ELSE Goto(_login_after_reprobe(ok))

\* A _get_setup that takes whatever a 2xx response holds as the token.
_get_setup_outcome_unchecked(resp) ==
    IF RaisesForStatus(resp.code) THEN "raise_http" ELSE "assign"

\* What _get_setup does with the response: raise_for_status, then the check
\* of the extracted token, then the assignment.
_get_setup_outcome(resp) ==
    IF RaisesForStatus(resp.code) THEN "raise_http"
    ELSE IF ~Truthy(resp.token) THEN "raise_no_token"
    ELSE "assign"

\* GET /setup; the token of the response becomes the current token and is
\* saved.
_get_setup(resp) ==
    /\ pc = "login_setup"
    /\ TaskVarsUnchanged
    /\ Sent("setup", << REMINI_ORACLE_API_BASE_URL, "setup" >>,
            _get_setup_headers(identity_token), NoneVal, resp)
    /\ IF _get_setup_outcome(resp) = "raise_http"
         THEN /\ Raise(E_SetupHTTP)
              /\ UNCHANGED << tokenFile, identity_token, saves >>
         ELSE IF _get_setup_outcome(resp) = "raise_no_token"
         THEN /\ Raise(E_SetupNoToken)
              /\ UNCHANGED << tokenFile, identity_token, saves >>
         ELSE /\ identity_token' = resp.token
              /\ tokenFile' = _save_identity_token(resp.token, tokenFile)
              /\ saves' = saves + _save_writes(resp.token)
              /\ Goto(_login_after_setup)

----------------------------------------------------------------------------
\* Task creation and upload.

\* upload_headers of the creation response: JSON null or missing (null), or
\* an object h of header names and values, possibly empty.
UploadHeaders(null, h) == [null |-> null, h |-> h]

GcsHeaders == ( "content-type" :> "image/jpeg" ) @@ ( "content-md5" :> "<md5>" )

UploadHeaderValues ==
    { UploadHeaders(TRUE, << >>), UploadHeaders(FALSE, << >>),
      UploadHeaders(FALSE, GcsHeaders) }

\* Python truthiness of an optional dict.
TruthyDict(v) == ~v.null /\ DOMAIN v.h # {}

CreateResponses ==
    { [code |-> 200, task_id |-> t, upload_url |-> u, upload_headers |-> h] :
        t \in TaskIds \cup {NoneVal}, u \in UploadUrls \cup {NoneVal},
        h \in UploadHeaderValues }
    \cup { [code |-> 500, task_id |-> NoneVal, upload_url |-> NoneVal,
            upload_headers |-> UploadHeaders(TRUE, << >>)] }

UploadResponses == { [code |-> c] : c \in {200, 500} }

\* A check that forgets upload_headers.
AllPresent_no_headers(t, u, h) == Truthy(t) /\ Truthy(u)

\* all([task_id, upload_url, upload_headers])
AllPresent(t, u, h) == Truthy(t) /\ Truthy(u) /\ TruthyDict(h)

\* The headers of the upload PUT.
GcsRequestHeaders(additional_headers) ==
    Update(Update(additional_headers, "Content-Length" :> "<len(file_content)>"),
           "User-Agent" :> _android_headers["user-agent"])

\* The variables the token lifecycle owns.
TokenVarsUnchanged ==
    /\ UNCHANGED << tokenFile, identity_token, cached, saves >>
    /\ OtherVarsUnchanged

\* POST /tasks; the response must name the task, the upload URL and the
\* upload headers.
_create_image_task(resp) ==
    /\ pc = "create"
    /\ TokenVarsUnchanged
    /\ UNCHANGED << wf, style, reprocess_task_id, poll_task, phase,
                    base_task_url, final_url, polls, runs >>
    /\ Sent("create", << REMINI_API_BASE_URL, "tasks" >>,
            _get_common_headers(identity_token, JSON_CONTENT_TYPE),
            [feature |-> EnhanceFeature], resp)
    /\ IF RaisesForStatus(resp.code)
         THEN /\ Raise(E_CreateHTTP)
              /\ UNCHANGED << task_id, upload_url, upload_headers >>
         ELSE /\ task_id' = resp.task_id
              /\ upload_url' = resp.upload_url
              /\ upload_headers' = resp.upload_headers.h
              /\ IF AllPresent(resp.task_id, resp.upload_url, resp.upload_headers)
                   THEN Goto("upload")
                   ELSE Raise(E_CreateMissing)

\* An upload that does not check the response's status.
_after_upload_unchecked(code) == "ping"

\* _upload_file_to_gcs raised or returned.
_after_upload(code) == IF RaisesForStatus(code) THEN "raise" ELSE "ping"

\* PUT the file to upload_url; _create_image_task then returns task_id.
_upload_file_to_gcs(resp) ==
    /\ pc = "upload"
    /\ TokenVarsUnchanged
    /\ UNCHANGED << wf, style, task_id, upload_url, upload_headers,
                    reprocess_task_id, poll_task, phase, base_task_url,
                    final_url, polls, runs >>
    /\ Sent("upload", << upload_url >>, GcsRequestHeaders(upload_headers),
            "<file_content>", resp)
    /\ IF _after_upload(resp.code) = "raise"
         THEN Raise(E_Upload)
         ELSE Goto(_after_upload(resp.code))

----------------------------------------------------------------------------
\* Trigger, poll, reprocess, download.

PingResponses == { [code |-> c] : c \in {200, 500} }

\* result.outputs[0].url of a status response: a URL, an empty URL, or no
\* outputs at all (NoneVal).
StatusResponses ==
    { [code |-> 200, status |-> "completed", url |-> u] :
        u \in OutputUrls \cup {NoneVal, ""} }
    \cup { [code |-> 200, status |-> st, url |-> NoneVal] :
            st \in StatusStrings \ {"completed"} }
    \cup { [code |-> c, status |-> NoneVal, url |-> NoneVal] : c \in {404, 500} }

\* data.get("errors") of a status response: the service's error payload, or
\* None when the response holds none.
ErrorPayloads == {"<errors>", NoneVal}

ReprocessResponses ==
    { [code |-> 200, task_id |-> t] : t \in TaskIds \cup {NoneVal} }
    \cup { [code |-> 500, task_id |-> NoneVal] }

DownloadResponses == { [code |-> c] : c \in {200, 500} }

\* The call of _poll_status_http a workflow makes first.
FirstPhase(w) == IF w = "stylize" THEN "base" ELSE "final"

\* A trigger that does not check the response's status.
_after_ping_unchecked(code) == "poll"

\* _ping_for_processing raised or returned.
_after_ping(code) == IF RaisesForStatus(code) THEN "raise" ELSE "poll"

\* POST /tasks/{task_id}/process.
_ping_for_processing(resp) ==
    /\ pc = "ping"
    /\ TokenVarsUnchanged
    /\ UNCHANGED << wf, style, task_id, upload_url, upload_headers,
                    reprocess_task_id, base_task_url, final_url, polls, runs >>
    /\ Sent("process", << REMINI_API_BASE_URL, "tasks", task_id, "process" >>,
            Update(_get_common_headers(identity_token, NoneVal),
                   "content-length" :> "0"),
            NoneVal, resp)
    /\ IF _after_ping(resp.code) = "raise"
         THEN /\ Raise(E_Ping)
              /\ UNCHANGED << poll_task, phase >>
         ELSE /\ Goto(_after_ping(resp.code))
              /\ poll_task' = task_id
              /\ phase' = FirstPhase(wf)

\* A polling loop with no special case for 404.
PollOutcome_no_404_case(resp) ==
    CASE RaisesForStatus(resp.code) -> "raise_http"
      [] ~RaisesForStatus(resp.code) /\ resp.status = "completed" -> "return"
      [] ~RaisesForStatus(resp.code) /\ resp.status \in {"failed", "error"}
            -> "raise_failed"
      [] OTHER -> "continue"

\* A polling loop that knows the status "failed" only.
PollOutcome_only_failed(resp) ==
    CASE resp.code = 404 -> "continue"
      [] resp.code # 404 /\ RaisesForStatus(resp.code) -> "raise_http"
      [] ~RaisesForStatus(resp.code) /\ resp.status = "completed" -> "return"
      [] ~RaisesForStatus(resp.code) /\ resp.status = "failed" -> "raise_failed"
      [] OTHER -> "continue"

\* A polling loop that waits for a completed task to have an output URL.
PollOutcome_completed_needs_url(resp) ==
    CASE resp.code = 404 -> "continue"
      [] resp.code # 404 /\ RaisesForStatus(resp.code) -> "raise_http"
      [] ~RaisesForStatus(resp.code) /\ resp.status = "completed"
            /\ Truthy(resp.url) -> "return"
      [] ~RaisesForStatus(resp.code) /\ resp.status \in {"failed", "error"}
            -> "raise_failed"
      [] OTHER -> "continue"

\* What one iteration of the polling loop does with a status response.
PollOutcome(resp) ==
    CASE resp.code = 404 -> "continue"
      [] resp.code # 404 /\ RaisesForStatus(resp.code) -> "raise_http"
      [] ~RaisesForStatus(resp.code) /\ resp.status = "completed" -> "return"
      [] ~RaisesForStatus(resp.code) /\ resp.status \in {"failed", "error"}
            -> "raise_failed"
      [] OTHER -> "continue"

\* The value _poll_status_http returns for a completed task.
PollResult(resp) == IF Truthy(resp.url) THEN resp.url ELSE NoneVal

\* A stylize that does not check base_task_url.
_stylize_after_base_unchecked(url) == "reprocess"

\* stylize, after the base task's poll returned url.
_stylize_after_base(url) == IF ~Truthy(url) THEN "raise" ELSE "reprocess"

\* A _process_common that downloads whatever final_url is.
_process_common_unchecked(url) == "download"

\* _process_common, given final_url.
_process_common(url) == IF ~Truthy(url) THEN "raise" ELSE "download"

\* One iteration of _poll_status_http: GET /tasks/{task_id}, and what the
\* caller does with the value returned.
_poll_status_http(resp, errors) ==
    /\ pc = "poll"
    /\ PollOutcome(resp) = "continue" => polls < MaxPolls
    /\ TokenVarsUnchanged
    /\ UNCHANGED << wf, style, task_id, upload_url, upload_headers,
                    reprocess_task_id, poll_task, phase, runs >>
    /\ Sent("status", << REMINI_API_BASE_URL, "tasks", poll_task >>,
            _get_common_headers(identity_token, NoneVal), NoneVal,
            [code |-> resp.code, status |-> resp.status, url |-> resp.url,
             errors |-> errors])
    /\ CASE PollOutcome(resp) = "continue" ->
              /\ polls' = polls + 1
              /\ Goto("poll")
              /\ UNCHANGED << base_task_url, final_url >>
         [] PollOutcome(resp) = "raise_http" ->
              /\ Raise(E_PollHTTP)
              /\ UNCHANGED << base_task_url, final_url, polls >>
         [] PollOutcome(resp) = "raise_failed" ->
              /\ RaiseWith(E_TaskFailed, errors)
              /\ UNCHANGED << base_task_url, final_url, polls >>
         [] PollOutcome(resp) = "return" /\ phase = "base" ->
              /\ base_task_url' = PollResult(resp)
              /\ IF _stylize_after_base(PollResult(resp)) = "raise"
                   THEN Raise(E_NoBaseUrl)
                   ELSE Goto(_stylize_after_base(PollResult(resp)))
              /\ UNCHANGED << final_url, polls >>
         [] PollOutcome(resp) = "return" /\ phase # "base" ->
              /\ final_url' = PollResult(resp)
              /\ IF _process_common(PollResult(resp)) = "raise"
                   THEN Raise(E_NoFinalUrl)
                   ELSE Goto(_process_common(PollResult(resp)))
              /\ UNCHANGED << base_task_url, polls >>

\* stylize: the task the reprocess request is scoped to, base_task_id.
_stylize_reprocess_base == task_id

\* A stylize that polls the base task again after reprocessing.
_stylize_final_task_base(new_task_id) == task_id

\* stylize: the task polled after reprocessing, reprocess_task_id.
_stylize_final_task(new_task_id) == new_task_id

\* POST /tasks/{base_task_id}/reprocess with the style feature; the new
\* task is polled next.
_reprocess_image_task(resp) ==
    /\ pc = "reprocess"
    /\ TokenVarsUnchanged
    /\ UNCHANGED << wf, style, task_id, upload_url, upload_headers,
                    base_task_url, final_url, polls, runs >>
    /\ Sent("reprocess",
            << REMINI_API_BASE_URL, "tasks", _stylize_reprocess_base, "reprocess" >>,
            _get_common_headers(identity_token, JSON_CONTENT_TYPE),
            [feature |-> StyleFeature(style)], resp)
    /\ IF RaisesForStatus(resp.code)
         THEN /\ Raise(E_ReprocessHTTP)
              /\ UNCHANGED << reprocess_task_id, poll_task, phase >>
         ELSE IF ~Truthy(resp.task_id)
         THEN /\ Raise(E_ReprocessNoId)
              /\ UNCHANGED << reprocess_task_id, poll_task, phase >>
         ELSE /\ reprocess_task_id' = resp.task_id
              /\ poll_task' = _stylize_final_task(resp.task_id)
              /\ phase' = "final"
              /\ Goto("poll")

\* GET final_url, streamed to the output file.
_download_file(resp) ==
    /\ pc = "download"
    /\ TokenVarsUnchanged
    /\ UNCHANGED << wf, style, task_id, upload_url, upload_headers,
                    reprocess_task_id, poll_task, phase, base_task_url,
                    final_url, polls, runs >>
    /\ Sent("download", << final_url >>,
            "user-agent" :> _android_headers["user-agent"], NoneVal, resp)
    /\ IF RaisesForStatus(resp.code)
         THEN Raise(E_Download)
         ELSE Goto("done")

----------------------------------------------------------------------------
Next ==
    \/ \E exists \in BOOLEAN : process(exists)
    \/ \E s \in Styles, exists \in BOOLEAN : stylize(s, exists)
    \/ \E resp \in ProfileResponses : _get_user_profile(resp)
    \/ \E resp \in SetupResponses : _get_setup(resp)
    \/ \E resp \in CreateResponses : _create_image_task(resp)
    \/ \E resp \in UploadResponses : _upload_file_to_gcs(resp)
    \/ \E resp \in PingResponses : _ping_for_processing(resp)
    \/ \E resp \in StatusResponses :
         \E errors \in IF PollOutcome(resp) = "raise_failed"
                          THEN ErrorPayloads ELSE {NoneVal} :
            _poll_status_http(resp, errors)
    \/ \E resp \in ReprocessResponses : _reprocess_image_task(resp)
    \/ \E resp \in DownloadResponses : _download_file(resp)

Spec == Init /\ [][Next]_vars

----------------------------------------------------------------------------
\* The exchanges of _login, and what the run says about the cached token.

Ok(i) == ~RaisesForStatus(reqs[i].resp.code)

InLogin == pc \in {"login_probe", "login_setup", "login_reprobe"}

\* _login was entered in this run and is over (it returned or raised).
LoginOver ==
    pc # "idle" /\ ~InLogin /\ err \notin {E_FileNotFound, E_Attribute}

\* The first exchange of the run probed the cached token.
ProbedCached ==
    /\ Truthy(cached)
    /\ Len(reqs) >= 1
    /\ reqs[1].op = "profile"
    /\ TokenOf(reqs[1].headers) = cached

CachedValid == ProbedCached /\ Ok(1)

CachedInvalid == ProbedCached /\ ~Ok(1)

CachedMissing == cached # Unset /\ ~Truthy(cached)

\* The setup response at position i carries a token.
Yields(i) == Ok(i) /\ Truthy(reqs[i].resp.token)

----------------------------------------------------------------------------
\* C1: a token that failed the profile probe is never reused: no exchange
\* after a failed probe, the setup request included, carries the token of
\* that probe in its identity-token header.
C1_FailedTokenNeverReused ==
    \A i \in At("profile") : \A j \in 1..Len(reqs) :
        (i < j /\ ~Ok(i)) =>
            TokenOf(reqs[j].headers) # TokenOf(reqs[i].headers)

\* C2: every setup request omits the identity-token header and carries the
\* device identifiers and the installation metadata.
C2_SetupOmitsToken ==
    \A i \in At("setup") :
        /\ "identity-token" \notin DOMAIN reqs[i].headers
        /\ { "android-id", "aaid", "backup-persistent-id",
             "non-backup-persistent-id", "first-install-timestamp",
             "app-set-id" } \subseteq DOMAIN reqs[i].headers

\* C3: when the cached token passes the probe, _login makes exactly one
\* network call, the probe: no setup request and no write to the token file.
C3_ValidTokenOneCall ==
    CachedValid =>
        /\ ~InLogin
        /\ At("profile") = {1}
        /\ At("setup") = {}
        /\ saves = 0

C3_Witness ==
    /\ CachedValid
    /\ pc = "create"
    /\ Len(reqs) = 1

C5_RejectedThenBootstrapped ==
    ( /\ Len(reqs) = 3
      /\ CachedInvalid
      /\ reqs[2].op = "setup" /\ Yields(2)
      /\ reqs[3].op = "profile" /\ Ok(3) ) =>
        /\ pc = "create"
        /\ err = NoError
        /\ identity_token = reqs[2].resp.token
        /\ TokenOf(reqs[3].headers) = reqs[2].resp.token
        /\ tokenFile = FileOf("object", reqs[2].resp.token)

C5_Witness ==
    /\ Len(reqs) = 3
    /\ CachedInvalid
    /\ reqs[1].resp.code = 401
    /\ reqs[2].op = "setup" /\ Yields(2)
    /\ reqs[3].op = "profile" /\ Ok(3)
    /\ pc = "create"

----------------------------------------------------------------------------
\* The exchanges of the task workflow.

StatusUrl(t) == << REMINI_API_BASE_URL, "tasks", t >>

ReprocessUrl(t) == << REMINI_API_BASE_URL, "tasks", t, "reprocess" >>

Max(S) == CHOOSE m \in S : \A x \in S : x <= m

\* The status response at position i says the task completed.
Completed(i) == Ok(i) /\ reqs[i].resp.status = "completed"

\* The status response at position i is a 404, or a 2xx whose status is
\* none of "completed", "failed", "error".
NotYet(i) ==
    \/ reqs[i].resp.code = 404
    \/ Ok(i) /\ reqs[i].resp.status \notin {"completed", "failed", "error"}

\* After the status exchange at position i the loop went on: the next
\* exchange is a status query of the same task, or the loop is about to
\* send one.
KeptPolling(i) ==
    IF i < Len(reqs)
      THEN reqs[i + 1].op = "status" /\ reqs[i + 1].url = reqs[i].url
      ELSE pc = "poll" /\ err = NoError /\ StatusUrl(poll_task) = reqs[i].url

\* The status queries of stylize's base task: those before the reprocess
\* request.
BaseStatus == { i \in At("status") : \A r \in At("reprocess") : i < r }

\* C6: _poll_status_http returns a value only after a status response
\* "completed", and after every 404 and every 2xx response with another
\* status than "completed", "failed" or "error" it queries the status again
\* instead of ending.
C6_PollsUntilTerminal ==
    /\ \A i \in At("status") : NotYet(i) => KeptPolling(i)
    /\ base_task_url # Unset =>
         /\ BaseStatus # {}
         /\ Completed(Max(BaseStatus))
    /\ final_url # Unset =>
         /\ At("status") # {}
         /\ Completed(Max(At("status")))
         /\ wf = "stylize" => Max(At("status")) \notin BaseStatus

C6_Witness ==
    /\ final_url # Unset
    /\ \E i \in At("status") : reqs[i].resp.code = 404
    /\ \E i \in At("status") : Ok(i) /\ reqs[i].resp.status = "processing"

\* The creation response lacks task_id, upload_url or upload_headers.
Lacks(resp) ==
    \/ resp.task_id = NoneVal
    \/ resp.upload_url = NoneVal
    \/ resp.upload_headers.null

\* C7: when the task-creation response lacks task_id, upload_url or
\* upload_headers, the workflow ends there with the task-creation error and
\* no upload request is sent.
C7_NoUploadWithoutTarget ==
    \A i \in At("create") :
        Lacks(reqs[i].resp) =>
            /\ At("upload") = {}
            /\ Len(reqs) = i
            /\ pc = "done"
            /\ err = IF Ok(i) THEN E_CreateMissing ELSE E_CreateHTTP

C7_Witness ==
    \E i \in At("create") :
        /\ Ok(i)
        /\ reqs[i].resp.task_id # NoneVal
        /\ reqs[i].resp.upload_url # NoneVal
        /\ reqs[i].resp.upload_headers.null

\* C8: the upload URL of the creation response is PUT to at most once in a
\* run, and exactly once before any trigger or status query, which follow
\* only a 2xx answer to the PUT; a failed upload ends the workflow with no
\* trigger and no status query.
C8_UploadOnceBeforePolling ==
    /\ Cardinality(At("upload")) <= 1
    /\ \A u \in At("upload") :
        /\ \E c \in At("create") :
             c < u /\ reqs[u].url = << reqs[c].resp.upload_url >>
        /\ ~Ok(u) =>
             /\ pc = "done"
             /\ err = E_Upload
             /\ Len(reqs) = u
    /\ \A j \in At("process") \cup At("status") :
        \E u \in At("upload") : u < j /\ Ok(u)

C8_Witness ==
    /\ At("status") # {}
    /\ Cardinality(At("upload")) = 1
    /\ wf = "process"

\* C9: in stylize the reprocess request follows a "completed" status
\* response of the base task and is addressed to the base task's id, the
\* one the creation response gave; every later status query follows a
\* reprocess response with a new task id and is addressed to that id.
C9_ReprocessAfterBaseCompleted ==
    \A r \in At("reprocess") :
        /\ wf = "stylize"
        /\ \E c \in At("create") :
            /\ c < r
            /\ reqs[r].url = ReprocessUrl(reqs[c].resp.task_id)
            /\ \E i \in At("status") :
                /\ c < i /\ i < r
                /\ Completed(i)
                /\ reqs[i].url = StatusUrl(reqs[c].resp.task_id)
        /\ \A i \in At("status") :
            i > r =>
                /\ Ok(r)
                /\ Truthy(reqs[r].resp.task_id)
                /\ reqs[i].url = StatusUrl(reqs[r].resp.task_id)

C9_Witness ==
    \E r \in At("reprocess") : \E i \in At("status") :
        /\ i > r
        /\ reqs[r].resp.task_id # task_id

\* The base task's poll returned an output URL.
BaseReturnedUrl == base_task_url # Unset /\ Truthy(base_task_url)

\* The base task of stylize completed, and its response holds no output URL.
BaseCompletedWithoutUrl ==
    /\ wf = "stylize"
    /\ \E i \in BaseStatus : Completed(i) /\ ~Truthy(reqs[i].resp.url)

\* C10: the reprocess request of stylize carries the style the caller gave,
\* and it is sent only when the base task completed with an output URL;
\* when the base task completes with none, stylize fails with the
\* task-failed error and sends neither a reprocess nor a download request.
C10_StyleFromCaller ==
    /\ \A r \in At("reprocess") :
        /\ style \in Styles
        /\ reqs[r].body.feature.type = "stylization-v2"
        /\ Len(reqs[r].body.feature.pipelines) = 1
        /\ reqs[r].body.feature.pipelines[1].id = style
        /\ BaseReturnedUrl
    /\ BaseCompletedWithoutUrl =>
        /\ pc = "done"
        /\ err = E_NoBaseUrl
        /\ At("reprocess") = {}
        /\ At("download") = {}
    /\ (wf = "stylize" /\ BaseReturnedUrl) =>
        \/ pc = "reprocess"
        \/ At("reprocess") # {}

C10_Witness ==
    /\ At("reprocess") # {}
    /\ style = "anime"
    /\ base_task_url \in OutputUrls

----------------------------------------------------------------------------
\* C11: a workflow that has ended either raised, or returned after its last
\* exchange, the download of final_url, was answered 2xx; a final task that
\* completed without an output URL makes the workflow raise, with no
\* download.
C11_NoPartialSuccess ==
    /\ (pc = "done" /\ err = NoError) =>
        /\ final_url # Unset /\ Truthy(final_url)
        /\ At("download") = {Len(reqs)}
        /\ Ok(Len(reqs))
        /\ reqs[Len(reqs)].url = << final_url >>
    /\ (final_url # Unset /\ ~Truthy(final_url)) =>
        /\ pc = "done"
        /\ err = E_NoFinalUrl
        /\ At("download") = {}

C11_Witness ==
    /\ final_url = NoneVal
    /\ wf = "stylize"
    /\ pc = "done"

----------------------------------------------------------------------------
\* The token file holds no token: no file, unreadable or unparseable bytes,
\* JSON that is no object, or an object without a non-empty identity_token.
HoldsNoToken(file) == ~(file.kind = "object" /\ Truthy(file.identity_token))

\* C12: whatever the token file holds, when it holds no token the load
\* raises nothing and leaves the client without a token, and _login goes on
\* to the setup request.  (Before the first exchange of a run the file is
\* what _load_identity_token read.)
C12_CacheNeverFailsLogin ==
    ( /\ pc # "idle"
      /\ err # E_FileNotFound
      /\ Len(reqs) = 0
      /\ HoldsNoToken(tokenFile) ) =>
        /\ err = NoError
        /\ ~Truthy(identity_token)
        /\ pc = "login_setup"

----------------------------------------------------------------------------
\* The token file as text.  A token is a sequence of characters; the file
\* holds what json.dump wrote, and json.load parses it back.

\* A character json.dump writes as a \u escape.
NonAscii == "U+00E9"

Chars == {"a", "\"", "\\", NonAscii}

TokenStrings == UNION { [1..n -> Chars] : n \in 0..MaxTokenLen }

\* None, where a string is expected.
NoneStr == << "<None>" >>

\* Python truthiness of an optional string.
TruthyStr(s) == s # NoneStr /\ s # << >>

\* json.dump of one character of a string (ensure_ascii is the default).
JsonEscapeChar(c) ==
    CASE c = "\"" -> << "\\", "\"" >>
      [] c = "\\" -> << "\\", "\\" >>
      [] c = NonAscii -> << "\\", "u", "0", "0", "e", "9" >>
      [] OTHER -> << c >>

RECURSIVE JsonEscape(_)
JsonEscape(s) ==
    IF s = << >> THEN << >>
    ELSE JsonEscapeChar(Head(s)) \o JsonEscape(Tail(s))

JsonDumpString(s) == << "\"" >> \o JsonEscape(s) \o << "\"" >>

\* json.dump({key: value}, f, indent=4): the object on three lines.
JsonDump(key, value) ==
    << "{", "\n", " " >> \o JsonDumpString(key) \o << ":", " " >>
        \o JsonDumpString(value) \o << "\n", "}" >>

JsonFail == [ok |-> FALSE, key |-> << >>, value |-> << >>, rest |-> << >>]

\* The string literal whose opening quote was just read: its value and the
\* text after its closing quote.
RECURSIVE ScanString(_, _)
ScanString(t, acc) ==
    IF t = << >> THEN JsonFail
    ELSE IF Head(t) = "\""
      THEN [ok |-> TRUE, key |-> << >>, value |-> acc, rest |-> Tail(t)]
    ELSE IF Head(t) = "\\"
      THEN IF Len(t) >= 2 /\ t[2] \in {"\"", "\\"}
             THEN ScanString(SubSeq(t, 3, Len(t)), Append(acc, t[2]))
           ELSE IF Len(t) >= 6 /\ SubSeq(t, 2, 6) = << "u", "0", "0", "e", "9" >>
             THEN ScanString(SubSeq(t, 7, Len(t)), Append(acc, NonAscii))
           ELSE JsonFail
    ELSE ScanString(Tail(t), Append(acc, Head(t)))

RECURSIVE SkipWhitespace(_)
SkipWhitespace(t) ==
    IF t # << >> /\ Head(t) \in {" ", "\n"} THEN SkipWhitespace(Tail(t)) ELSE t

\* The text starts, after whitespace, with the character c.
StartsWith(t, c) == SkipWhitespace(t) # << >> /\ Head(SkipWhitespace(t)) = c

\* The text after that character.
After(t) == Tail(SkipWhitespace(t))

\* json.load of a text holding an object with one string member; anything
\* else fails (JSONDecodeError).
JsonLoad(text) ==
    IF ~StartsWith(text, "{") \/ ~StartsWith(After(text), "\"") THEN JsonFail
    ELSE LET k == ScanString(After(After(text)), << >>) IN
    IF ~k.ok \/ ~StartsWith(k.rest, ":") \/ ~StartsWith(After(k.rest), "\"")
      THEN JsonFail
    ELSE LET v == ScanString(After(After(k.rest)), << >>) IN
    IF ~v.ok \/ SkipWhitespace(v.rest) # << "}" >> THEN JsonFail
    ELSE [ok |-> TRUE, key |-> k.value, value |-> v.value, rest |-> << >>]

\* data.get(key) on the object json.load returned.
DictGet(data, key) == IF data.key = key THEN data.value ELSE NoneStr

\* A load that asks for the header's name instead of the member's.
LOADED_KEY_header_name == << "identity-token" >>

\* The member _save_identity_token writes and _load_identity_token reads.
SAVED_KEY == << "identity_token" >>
LOADED_KEY == << "identity_token" >>

\* open(token_path, "w") and json.dump: the file's new content.
WriteTokenFile(old, tok) == [exists |-> TRUE, text |-> JsonDump(SAVED_KEY, tok)]

\* _save_identity_token of the saving client.
rt_save_identity_token ==
    /\ rt_pc = "save"
    /\ rt_pc' = "load"
    /\ rt_file' = IF TruthyStr(rt_token) THEN WriteTokenFile(rt_file, rt_token)
                  ELSE rt_file
    /\ UNCHANGED << rt_client, rt_token, rt_loaded >>
    /\ UNCHANGED << main_vars, dl_vars, cc_vars >>

\* _load_identity_token of the loading client.
rt_load_identity_token ==
    /\ rt_pc = "load"
    /\ rt_pc' = "end"
    /\ rt_loaded' =
         IF ~rt_file.exists THEN rt_loaded
         ELSE IF ~JsonLoad(rt_file.text).ok THEN NoneStr
         ELSE DictGet(JsonLoad(rt_file.text), LOADED_KEY)
    /\ UNCHANGED << rt_client, rt_token, rt_file >>
    /\ UNCHANGED << main_vars, dl_vars, cc_vars >>

\* A client holding any token is about to save it; the file is missing or
\* holds an older token; the client that will load is the same one, or one
\* just constructed.
RtInit ==
    /\ MainInit({FileOf("absent", NoneVal)})
    /\ DlOff
    /\ CcOff
    /\ rt_pc = "save"
    /\ rt_client \in {"same", "fresh"}
    /\ rt_token \in TokenStrings
    /\ rt_file \in { [exists |-> FALSE, text |-> << >>],
                     [exists |-> TRUE, text |-> JsonDump(SAVED_KEY, << "a", "a" >>)] }
    /\ rt_loaded = IF rt_client = "same" THEN rt_token ELSE NoneStr

RtNext == rt_save_identity_token \/ rt_load_identity_token

RtSpec == RtInit /\ [][RtNext]_vars

\* C13: after _save_identity_token wrote a token, _load_identity_token on
\* the same path, by the same or by a fresh client, sets the current token
\* to the identical value.
C13_TokenRoundTrip ==
    (rt_pc = "end" /\ TruthyStr(rt_token)) => rt_loaded = rt_token

C13_Witness ==
    /\ rt_pc = "end"
    /\ rt_client = "fresh"
    /\ rt_token = << "\\", "\"", NonAscii >>
    /\ rt_loaded = rt_token

----------------------------------------------------------------------------
\* The requests a workflow sends once.
OneShotOps == {"create", "upload", "process", "reprocess", "download"}

\* The exchange at position i failed: a non-2xx answer, a creation response
\* lacking a field, or a reprocess response without task id.
Failed(i) ==
    \/ ~Ok(i)
    \/ reqs[i].op = "create" /\ Lacks(reqs[i].resp)
    \/ reqs[i].op = "reprocess" /\ ~Truthy(reqs[i].resp.task_id)

\* C14: in a run each of the creation, upload, trigger, reprocess and
\* download requests is sent at most once, a failure of any of them is the
\* run's last exchange and ends it with an error, and a status query
\* follows another one only after a 404 or a non-terminal status.
C14_NoRetries ==
    /\ \A op \in OneShotOps : Cardinality(At(op)) <= 1
    /\ \A i \in 1..Len(reqs) :
        (reqs[i].op \in OneShotOps /\ Failed(i)) =>
            /\ i = Len(reqs)
            /\ pc = "done"
            /\ err # NoError
    /\ \A i \in At("status") :
        (i > 1 /\ reqs[i - 1].op = "status") =>
            /\ NotYet(i - 1)
            /\ reqs[i].url = reqs[i - 1].url

C14_Witness ==
    /\ Len(reqs) >= 2
    /\ reqs[Len(reqs)].op = "process"
    /\ ~Ok(Len(reqs))
    /\ pc = "done"

----------------------------------------------------------------------------
\* The poll that sent the status query at position i returned no URL.
NoUrlReturned ==
    /\ final_url = Unset
    /\ At("reprocess") = {} => base_task_url = Unset

\* C15: a status response that is non-2xx and not 404 ends the loop with the
\* polling error and is the last status query; a 2xx response with status
\* "failed" or "error" ends it with the task-failed error, which carries the
\* errors payload of the response; in neither case is an output URL
\* returned.
C15_PollFailures ==
    \A i \in At("status") :
        /\ (~Ok(i) /\ reqs[i].resp.code # 404) =>
            /\ i = Len(reqs)
            /\ pc = "done"
            /\ err = E_PollHTTP
            /\ NoUrlReturned
        /\ (Ok(i) /\ reqs[i].resp.status \in {"failed", "error"}) =>
            /\ i = Len(reqs)
            /\ pc = "done"
            /\ err = E_TaskFailed
            /\ err_detail = reqs[i].resp.errors
            /\ NoUrlReturned

C15_Witness ==
    /\ err = E_TaskFailed
    /\ err_detail = "<errors>"
    /\ reqs[Len(reqs)].resp.status = "error"
    /\ \E i \in At("status") : NotYet(i)

----------------------------------------------------------------------------
\* _download_file with its stream: the response is checked, the output file
\* is opened for writing, and every chunk is written as it arrives.

Bytes == {0, 1}

Chunks == UNION { [1..n -> Bytes] : n \in 0..MaxChunkLen }

Bodies == UNION { [1..n -> Chunks] : n \in 0..MaxChunks }

\* The bytes of a sequence of chunks, one after the other.
RECURSIVE Concat(_)
Concat(chunks) ==
    IF chunks = << >> THEN << >> ELSE Head(chunks) \o Concat(Tail(chunks))

\* An open that keeps what the file held.
OpenWb_keeping(file) == [exists |-> TRUE, bytes |-> file.bytes]

\* open(output_path, "wb"): the file exists and is empty.
OpenWb(file) == [exists |-> TRUE, bytes |-> << >>]

\* f.write(chunk)
FileWrite(file, chunk) == [exists |-> TRUE, bytes |-> file.bytes \o chunk]

DlOthersUnchanged == UNCHANGED << main_vars, rt_vars, cc_vars >>

\* client.stream("GET", url), raise_for_status, open(output_path, "wb").
dl_open(code, body) ==
    /\ dl_pc = "get"
    /\ DlOthersUnchanged
    /\ dl_n' = 0
    /\ IF RaisesForStatus(code)
         THEN /\ dl_pc' = "end"
              /\ dl_err' = E_Download
              /\ UNCHANGED << dl_body, dl_file >>
         ELSE /\ dl_pc' = "write"
              /\ dl_err' = dl_err
              /\ dl_body' = body
              /\ dl_file' = OpenWb(dl_file)

\* One turn of async for chunk in response.aiter_bytes(): f.write(chunk).
dl_write ==
    /\ dl_pc = "write"
    /\ dl_n < Len(dl_body)
    /\ DlOthersUnchanged
    /\ dl_n' = dl_n + 1
    /\ dl_file' = FileWrite(dl_file, dl_body[dl_n + 1])
    /\ UNCHANGED << dl_pc, dl_body, dl_err >>

\* The stream is exhausted: the file and the response are closed.
dl_close ==
    /\ dl_pc = "write"
    /\ dl_n = Len(dl_body)
    /\ DlOthersUnchanged
    /\ dl_pc' = "end"
    /\ UNCHANGED << dl_body, dl_n, dl_file, dl_err >>

\* The output path names no file, or a file with older content.
DlInit ==
    /\ MainInit({FileOf("absent", NoneVal)})
    /\ RtOff
    /\ CcOff
    /\ dl_pc = "get"
    /\ dl_body = << >>
    /\ dl_n = 0
    /\ dl_file \in { [exists |-> FALSE, bytes |-> << >>],
                     [exists |-> TRUE, bytes |-> << 1, 1, 0 >>] }
    /\ dl_err = NoError

DlNext ==
    \/ \E code \in {200, 500} :
         \E body \in IF RaisesForStatus(code) THEN {<< >>} ELSE Bodies :
            dl_open(code, body)
    \/ dl_write
    \/ dl_close

DlSpec == DlInit /\ [][DlNext]_vars

\* C16: on a 2xx response the output file holds, after every chunk written
\* and when _download_file returns, exactly the bytes of the chunks received
\* so far, in the order received.
C16_DownloadWritesAllChunks ==
    /\ dl_pc = "write" =>
         dl_file = [exists |-> TRUE,
                    bytes |-> Concat(SubSeq(dl_body, 1, dl_n))]
    /\ (dl_pc = "end" /\ dl_err = NoError) =>
         /\ dl_n = Len(dl_body)
         /\ dl_file = [exists |-> TRUE, bytes |-> Concat(dl_body)]

C16_Witness ==
    /\ dl_pc = "end"
    /\ dl_err = NoError
    /\ dl_body = << << 0, 1 >>, << >>, << 1 >> >>
    /\ dl_file.bytes = << 0, 1, 1 >>

----------------------------------------------------------------------------
\* A failed bootstrap.

\* The step just taken was a /setup exchange.
SetupStep == pc = "login_setup" /\ Len(reqs') = Len(reqs) + 1

\* The /setup response of the step just taken is unusable: not 2xx, or
\* without a token.
SetupUnusable ==
    LET resp == reqs'[Len(reqs')].resp IN
    RaisesForStatus(resp.code) \/ ~Truthy(resp.token)

\* C19: a /setup answered non-2xx or without a token ends _get_setup with its
\* exception and leaves the in-memory token and the token file as they were;
\* the token file is only ever written in a /setup step whose response held
\* a non-empty token.
C19_FailedSetupKeepsToken ==
    [][ /\ (SetupStep /\ SetupUnusable) =>
            /\ pc' = "done"
            /\ err' \in {E_SetupHTTP, E_SetupNoToken}
            /\ identity_token' = identity_token
            /\ tokenFile' = tokenFile
            /\ saves' = saves
        /\ (tokenFile' # tokenFile \/ saves' > saves) =>
            /\ SetupStep
            /\ ~SetupUnusable
            /\ tokenFile' = FileOf("object", reqs'[Len(reqs')].resp.token)
      ]_vars

\* A cached token was rejected, the bootstrap then failed, and the token and
\* the file are those of before.
C19_Witness ==
    /\ pc = "done"
    /\ err = E_SetupNoToken
    /\ reqs[Len(reqs)].op = "setup"
    /\ identity_token \in CachedTokens
    /\ tokenFile = FileOf("object", identity_token)

----------------------------------------------------------------------------
\* Two workflows running concurrently on the event loop, on one client or on
\* a client each, every client constructed with the default token_path.  A
\* step runs from the response a workflow awaited to the request it sends
\* next: the token of a request is read when the request is sent, and other
\* workflows run while the request is in flight.  Of the requests after
\* _login the first, POST /tasks, stands for all.  The service mints a new
\* token at every bootstrap.

Workflows == {1, 2}

\* A client that keeps a token for each workflow.
InstanceOf_per_workflow(mode, w) == w

\* A token that all clients keep in one place.
InstanceOf_shared(mode, w) == 1

\* The client whose identity_token workflow w reads and writes.
InstanceOf(mode, w) == IF mode = "one" THEN 1 ELSE w

\* The entry of cc_log for a token load, a request or a minted token.
CcEvent(w, op, tok) == [w |-> w, op |-> op, token |-> tok]

\* The request a workflow sends on its way to position p, with the client's
\* token tok.
CcRequest(w, p, tok) ==
    CASE p = "login_setup" ->
           CcEvent(w, "setup", TokenOf(_get_setup_headers(tok)))
      [] p = "create" ->
           CcEvent(w, "tasks", TokenOf(_get_common_headers(tok, JSON_CONTENT_TYPE)))
      [] OTHER ->
           CcEvent(w, "profile", TokenOf(_get_common_headers(tok, NoneVal)))

\* The tokens the bootstraps have minted so far.
CcMinted == { cc_log[k].token : k \in { j \in 1..Len(cc_log) : cc_log[j].op = "mint" } }

CcOthersUnchanged == UNCHANGED << main_vars, rt_vars, dl_vars >>

CcEnd(w, e) ==
    /\ cc_pc' = [cc_pc EXCEPT ![w] = "done"]
    /\ cc_err' = [cc_err EXCEPT ![w] = e]

CcGoto(w, p) ==
    /\ cc_pc' = [cc_pc EXCEPT ![w] = p]
    /\ cc_err' = cc_err

\* _login up to its first await: the token is loaded, and probed when there
\* is one, or else the bootstrap is requested.
cc_login(w) ==
    /\ cc_pc[w] = "start"
    /\ CcOthersUnchanged
    /\ UNCHANGED << cc_mode, cc_file >>
    /\ LET i == InstanceOf(cc_mode, w)
           tok == _load_identity_token(cc_file, cc_token[i])
           p == _login_after_load(tok)
       IN /\ cc_token' = [cc_token EXCEPT ![i] = tok]
          /\ cc_log' = cc_log \o << CcEvent(w, "load", tok), CcRequest(w, p, tok) >>
          /\ CcGoto(w, p)

\* The response of GET /users/@me, up to the next request.
cc_get_user_profile(w, resp) ==
    /\ cc_pc[w] \in {"login_probe", "login_reprobe"}
    /\ CcOthersUnchanged
    /\ UNCHANGED << cc_mode, cc_file, cc_token >>
    /\ LET ok == ~RaisesForStatus(resp.code)
           p == IF cc_pc[w] = "login_probe"
                  THEN _login_after_probe(ok) ELSE _login_after_reprobe(ok)
       IN IF p = "raise"
            THEN /\ CcEnd(w, E_Auth)
                 /\ UNCHANGED cc_log
            ELSE /\ CcGoto(w, p)
                 /\ cc_log' = Append(cc_log,
                        CcRequest(w, p, cc_token[InstanceOf(cc_mode, w)]))

\* The response of GET /setup: the token is assigned and saved, and probed.
cc_get_setup(w, resp) ==
    /\ cc_pc[w] = "login_setup"
    /\ CcOthersUnchanged
    /\ UNCHANGED cc_mode
    /\ IF _get_setup_outcome(resp) = "raise_http"
         THEN /\ CcEnd(w, E_SetupHTTP)
              /\ UNCHANGED << cc_file, cc_token, cc_log >>
         ELSE IF _get_setup_outcome(resp) = "raise_no_token"
         THEN /\ CcEnd(w, E_SetupNoToken)
              /\ UNCHANGED << cc_file, cc_token, cc_log >>
         ELSE /\ cc_token' = [cc_token EXCEPT ![InstanceOf(cc_mode, w)] = resp.token]
              /\ cc_file' = _save_identity_token(resp.token, cc_file)
              /\ cc_log' = cc_log \o
                    << CcEvent(w, "mint", resp.token),
                       CcRequest(w, _login_after_setup, resp.token) >>
              /\ CcGoto(w, _login_after_setup)

\* The response of POST /tasks.
cc_create_image_task(w, resp) ==
    /\ cc_pc[w] = "create"
    /\ CcOthersUnchanged
    /\ UNCHANGED << cc_mode, cc_file, cc_token, cc_log >>
    /\ CcEnd(w, IF RaisesForStatus(resp.code) THEN E_CreateHTTP ELSE NoError)

\* The token file is missing or holds a token; no client has a token yet.
CcInit ==
    /\ MainInit({FileOf("absent", NoneVal)})
    /\ RtOff
    /\ DlOff
    /\ cc_mode \in {"one", "two"}
    /\ cc_file \in { FileOf("absent", NoneVal) }
                   \cup { FileOf("object", t) : t \in CachedTokens }
    /\ cc_token = [i \in Workflows |-> NoneVal]
    /\ cc_pc = [w \in Workflows |-> "start"]
    /\ cc_err = [w \in Workflows |-> NoError]
    /\ cc_log = << >>

CcNext ==
    \E w \in Workflows :
        \/ cc_login(w)
        \/ \E resp \in ProfileResponses : cc_get_user_profile(w, resp)
        \/ \E resp \in { r \in SetupResponses : r.token \notin CcMinted } :
              cc_get_setup(w, resp)
        \/ \E resp \in UploadResponses : cc_create_image_task(w, resp)

CcSpec == CcInit /\ [][CcNext]_vars

\* The positions of cc_log with an entry of workflow w and kind op.
CcAt(w, op) == { k \in 1..Len(cc_log) : cc_log[k].w = w /\ cc_log[k].op = op }

\* The tokens of the entries of workflow w of kind op.
CcTokens(w, op) == { cc_log[k].token : k \in CcAt(w, op) }

CcRequests(w) == CcAt(w, "profile") \cup CcAt(w, "setup") \cup CcAt(w, "tasks")

\* The positions before k where some workflow of ws loaded or minted a token.
CcAssigns(ws, k) ==
    { j \in 1..(k - 1) : cc_log[j].w \in ws /\ cc_log[j].op \in {"load", "mint"} }

\* The token last loaded or minted by a workflow of ws before position k.
CcLatest(ws, k) ==
    IF CcAssigns(ws, k) = {} THEN NoneVal ELSE cc_log[Max(CcAssigns(ws, k))].token

\* C17 as stated: with a client each, no workflow loads a token the other
\* workflow's bootstrap minted and saved, and every token a workflow sends is
\* one it loaded or minted itself.
C17_NoSharedState ==
    cc_mode = "two" =>
        \A w \in Workflows :
            /\ CcTokens(w, "load") \cap CcTokens(3 - w, "mint") = {}
            /\ \A k \in CcRequests(w) :
                  cc_log[k].token \in
                      {NoneVal} \cup CcTokens(w, "load") \cup CcTokens(w, "mint")

\* C17, amended: two clients share no state in memory, but they share the
\* token file.  The identity_token of a client is the one its own workflow
\* loaded or minted last, and every token it sends is one it loaded or
\* minted itself; a token it loads is the one the file held at first or one
\* that a bootstrap of either client saved.
C17_OwnTokenSharedFile ==
    cc_mode = "two" =>
        \A w \in Workflows :
            /\ cc_token[w] = CcLatest({w}, Len(cc_log) + 1)
            /\ \A k \in CcRequests(w) :
                  cc_log[k].token \in
                      {NoneVal} \cup CcTokens(w, "load") \cup CcTokens(w, "mint")
            /\ CcTokens(w, "load") \subseteq
                  {NoneVal} \cup CachedTokens \cup CcMinted

\* One client has loaded, and sent, the token that the other client's
\* bootstrap minted.
C17_Witness ==
    /\ cc_mode = "two"
    /\ \E w \in Workflows :
          \E k \in CcAt(w, "profile") :
              /\ cc_log[k].token \in CcTokens(w, "load")
              /\ cc_log[k].token \in CcTokens(3 - w, "mint")

\* C18: on one client a request carries the token that either workflow
\* loaded or minted last before the request was sent, whichever workflow
\* sends it; the workflows have no token of their own.
C18_RequestsCarryLatestToken ==
    cc_mode = "one" =>
        \A w \in Workflows :
            \A k \in CcRequests(w) :
                cc_log[k].token = CcLatest(Workflows, k)

\* The race: on one client both workflows have issued a bootstrap request,
\* and a request of one carries the token the other's bootstrap minted.
C18_Witness ==
    /\ cc_mode = "one"
    /\ \A w \in Workflows : CcAt(w, "setup") # {}
    /\ \E w \in Workflows :
          \E k \in CcAt(w, "tasks") :
              /\ cc_log[k].token \in CcTokens(3 - w, "mint")
              /\ cc_log[k].token \notin CcTokens(w, "mint") \cup CcTokens(w, "load")

----------------------------------------------------------------------------
\* Polling without end.  The loop of _poll_status_http has no bound; the log
\* of exchanges keeps the first MaxPolls answers that continue a run's
\* polling, and an iteration after these changes only the parity of polls.

_poll_status_http_again(resp) ==
    /\ pc = "poll"
    /\ polls >= MaxPolls
    /\ PollOutcome(resp) = "continue"
    /\ polls' = IF polls = MaxPolls THEN MaxPolls + 1 ELSE MaxPolls
    /\ UNCHANGED << tokenFile, identity_token, cached, saves, pc, wf, style,
                    task_id, upload_url, upload_headers, reprocess_task_id,
                    poll_task, phase, base_task_url, final_url, err,
                    err_detail, reqs, runs >>
    /\ OtherVarsUnchanged

\* The steps the event loop takes on its own: a sleep that ends, a response
\* that arrives.
LiveResume ==
    \/ \E resp \in ProfileResponses : _get_user_profile(resp)
    \/ \E resp \in SetupResponses : _get_setup(resp)
    \/ \E resp \in CreateResponses : _create_image_task(resp)
    \/ \E resp \in UploadResponses : _upload_file_to_gcs(resp)
    \/ \E resp \in PingResponses : _ping_for_processing(resp)
    \/ \E resp \in StatusResponses :
         \E errors \in IF PollOutcome(resp) = "raise_failed"
                          THEN ErrorPayloads ELSE {NoneVal} :
            _poll_status_http(resp, errors)
    \/ \E resp \in StatusResponses : _poll_status_http_again(resp)
    \/ \E resp \in ReprocessResponses : _reprocess_image_task(resp)
    \/ \E resp \in DownloadResponses : _download_file(resp)

LiveInit ==
    /\ MainInit({ FileOf("object", t) : t \in CachedTokens })
    /\ RtOff
    /\ DlOff
    /\ CcOff

LiveNext ==
    \/ \E exists \in BOOLEAN : process(exists)
    \/ \E s \in Styles, exists \in BOOLEAN : stylize(s, exists)
    \/ LiveResume

\* The caller may never call; a workflow that awaits is always resumed.
LiveSpec == LiveInit /\ [][LiveNext]_vars /\ WF_vars(LiveResume)

\* A status response that ends the wait, as the service sees it: the task
\* completed, failed or is in error, or the status is non-2xx and not 404.
TerminalAnswer(resp) ==
    IF RaisesForStatus(resp.code)
      THEN resp.code # 404
      ELSE resp.status \in {"completed", "failed", "error"}

\* The step just taken was a status query of _poll_status_http.
PollStep == pc = "poll" /\ (Len(reqs') = Len(reqs) + 1 \/ polls' # polls)

\* The answer of the status query just logged.
PollAnswer == reqs'[Len(reqs')].resp

\* The last exchange was a status query with a terminal answer.
PollEnded ==
    /\ reqs # << >>
    /\ reqs[Len(reqs)].op = "status"
    /\ TerminalAnswer(reqs[Len(reqs)].resp)

\* _poll_status_http is left only by a terminal answer, and a terminal
\* answer leaves it.
PollEndsOnTerminalOnly ==
    [][ PollStep =>
          IF Len(reqs') = Len(reqs) + 1 /\ TerminalAnswer(PollAnswer)
            THEN pc' # "poll"
            ELSE pc' = "poll" /\ err' = NoError ]_vars

\* C20 as stated: a terminal answer ends _poll_status_http and, in time, the
\* enclosing workflow; any other answer keeps _poll_status_http going.
C20_TerminalAnswerEndsWorkflow ==
    /\ PollEndsOnTerminalOnly
    /\ PollEnded ~> (pc = "done")

\* stylize waits for the derived task.
AwaitsDerivedTask == wf = "stylize" /\ pc = "poll" /\ phase = "final"

\* C20, amended: a terminal answer ends _poll_status_http and any other
\* answer keeps it going.  After a terminal answer the enclosing workflow
\* ends in time too, except after the wait of stylize for its base task
\* returned a URL: stylize then reprocesses and ends or gets to wait for the
\* derived task, a wait that needs a terminal answer of its own.
C20_TerminalAnswerEndsWait ==
    /\ [][ PollStep =>
            IF Len(reqs') = Len(reqs) + 1 /\ TerminalAnswer(PollAnswer)
              THEN pc' \in {"done", "download", "reprocess"}
              ELSE pc' = "poll" /\ err' = NoError ]_vars
    /\ (PollEnded /\ pc # "reprocess") ~> (pc = "done")
    /\ (PollEnded /\ pc = "reprocess") ~> (pc = "done" \/ AwaitsDerivedTask)

\* A wait went on beyond the answers the log keeps and ended on a terminal
\* answer, and the workflow has ended after it.
C20_Witness ==
    /\ pc = "done"
    /\ polls > MaxPolls
    /\ At("download") # {}
    /\ \E i \in At("status") : TerminalAnswer(reqs[i].resp)

============================================================================
